---------------------------- MODULE Spec2Model ----------------------------
(***************************************************************************)
(* A model of RVGP/geometry.py: the scalar and connection graph Laplacian, *)
(* furthest point sampling, the projection onto local frames and the       *)
(* control flow of vector diffusion.                                       *)
(*                                                                         *)
(* Each function of the source is a small state machine held in one       *)
(* record variable (lap, fps, vd, proj): Init draws its arguments from     *)
(* bounded sets and the actions execute its statements.  Arrays keep the   *)
(* source's 0-based indices (functions over 0..n-1).  The float64 values   *)
(* of the sampling are rationals <<num, den>>, where den = 0 encodes the   *)
(* IEEE specials: <<1,0>> = inf, <<-1,0>> = -inf, <<0,0>> = NaN; those of  *)
(* the Laplacians and of the projections are binary64 numbers              *)
(* <<sign, significand, exponent>> with the rounding of every operation.   *)
(***************************************************************************)
EXTENDS Integers, Sequences, FiniteSets, TLC

VARIABLES lap, fps, vd, proj

vars == <<lap, fps, vd, proj>>

\* The value of a variable whose function is not the one being run.
Idle == [pc |-> "idle"]

\* Python's None, and the absence of an exception.  An optional integer
\* argument is None or the one-element tuple <<k>>.
None == <<>>

NoError == "none"

---------------------------------------------------------------------------
(* Arithmetic of the sampling distances: rationals <<n, d>> in lowest      *)
(* terms.  The coordinates are integers, so the distances and their        *)
(* minima and maxima are exact in float64; the quotient of a distance by   *)
(* the diameter stands for the float64 nearest to it, and comparing it     *)
(* with stop_crit gives what comparing the two doubles gives.  The         *)
(* rationals also state the components of the frame vectors before they    *)
(* are rounded.  The Laplacians and the projections, where the rounding of *)
(* an operation shows in the result, use the binary64 arithmetic of the    *)
(* next section.                                                           *)

Abs(a) == IF a < 0 THEN -a ELSE a

Sign(a) == IF a < 0 THEN -1 ELSE IF a > 0 THEN 1 ELSE 0

RECURSIVE GCD(_, _)
GCD(a, b) == IF b = 0 THEN a ELSE GCD(b, a % b)

\* The rational n/d in lowest terms with a positive denominator; d = 0 gives
\* the IEEE result of dividing by zero (inf, -inf or NaN).
Rat(n, d) ==
    IF d = 0 THEN <<Sign(n), 0>>
    ELSE LET g == GCD(Abs(n), Abs(d))
             s == IF d < 0 THEN -1 ELSE 1
         IN  <<(s * n) \div g, (s * d) \div g>>

IsNaN(a) == a = <<0, 0>>

IsFinite(a) == a[2] # 0

\* a / b
RatDiv(a, b) ==
    IF IsNaN(a) \/ IsNaN(b) THEN <<0, 0>>
    ELSE IF ~IsFinite(a) THEN (IF IsFinite(b)
                               THEN <<a[1] * (IF b[1] < 0 THEN -1 ELSE 1), 0>>
                               ELSE <<0, 0>>)
    ELSE IF ~IsFinite(b) THEN <<0, 1>>
    ELSE Rat(a[1] * b[2], a[2] * b[1])

\* a * b
RatMul(a, b) ==
    IF IsNaN(a) \/ IsNaN(b) THEN <<0, 0>>
    ELSE IF ~IsFinite(a) \/ ~IsFinite(b)
         THEN <<Sign(a[1]) * Sign(b[1]), 0>>
    ELSE Rat(a[1] * b[1], a[2] * b[2])

\* a + b
RatAdd(a, b) ==
    IF IsNaN(a) \/ IsNaN(b) THEN <<0, 0>>
    ELSE IF ~IsFinite(a) /\ ~IsFinite(b)
         THEN (IF a = b THEN a ELSE <<0, 0>>)
    ELSE IF ~IsFinite(a) THEN a
    ELSE IF ~IsFinite(b) THEN b
    ELSE Rat(a[1] * b[2] + b[1] * a[2], a[2] * b[2])

\* a < b; every comparison with NaN is false.
RatLt(a, b) ==
    IF IsNaN(a) \/ IsNaN(b) THEN FALSE
    ELSE IF ~IsFinite(a) THEN a[1] < 0 /\ b # a
    ELSE IF ~IsFinite(b) THEN b[1] > 0
    ELSE a[1] * b[2] < b[1] * a[2]

\* len(x), x.shape[0]
Size(a) == Cardinality(DOMAIN a)

\* The array f and the matrix M with every element evaluated, as an array
\* in memory is: the same function, computed once and not at every use.
Stored(f) == f @@ <<>>

Stored2(M) == Stored([i \in DOMAIN M |-> Stored(M[i])])

\* The sum of f[k] over k in lo..hi (rationals).
RECURSIVE RatSum(_, _, _)
RatSum(f, lo, hi) ==
    IF lo > hi THEN <<0, 1>> ELSE RatAdd(f[lo], RatSum(f, lo + 1, hi))

---------------------------------------------------------------------------
(* IEEE 754 binary64 arithmetic, for the Laplacians and for np.einsum.     *)
(* A natural number is the sequence of its digits in base 2^15, lowest     *)
(* first and with no leading zero digit (0 is the empty sequence); a       *)
(* finite double is <<s, m, e>> with the value s * m * 2^e, s its sign, m  *)
(* an odd natural number of at most 53 bits, and 0 is <<0, <<>>, 0>>.      *)
(* Overflow and subnormal numbers are out of the range of the inputs.      *)

\* The base of the digits, of 15 bits each: the product of two digits is a
\* 32 bit integer.
LimbBase == 2 ^ 15

\* Digit i of a, 0 above its length.
BigLimb(a, i) == IF i <= Len(a) THEN a[i] ELSE 0

\* a without leading zero digits.
RECURSIVE BigTrim(_)
BigTrim(a) ==
    IF a = <<>> THEN <<>>
    ELSE IF a[Len(a)] = 0 THEN BigTrim(SubSeq(a, 1, Len(a) - 1))
    ELSE a

RECURSIVE BigAddFrom(_, _, _, _)
BigAddFrom(a, b, i, carry) ==
    IF i > Len(a) /\ i > Len(b)
    THEN (IF carry = 0 THEN <<>> ELSE <<carry>>)
    ELSE LET t == BigLimb(a, i) + BigLimb(b, i) + carry
         IN  <<t % LimbBase>> \o BigAddFrom(a, b, i + 1, t \div LimbBase)

\* a + b
BigAdd(a, b) == BigAddFrom(a, b, 1, 0)

RECURSIVE BigSubFrom(_, _, _, _)
BigSubFrom(a, b, i, borrow) ==
    IF i > Len(a) THEN <<>>
    ELSE LET t == a[i] - BigLimb(b, i) - borrow
         IN  IF t < 0 THEN <<t + LimbBase>> \o BigSubFrom(a, b, i + 1, 1)
             ELSE <<t>> \o BigSubFrom(a, b, i + 1, 0)

\* a - b, for a >= b
BigSub(a, b) == BigTrim(BigSubFrom(a, b, 1, 0))

RECURSIVE BigLessFrom(_, _, _)
BigLessFrom(a, b, i) ==
    IF i = 0 THEN FALSE
    ELSE IF a[i] # b[i] THEN a[i] < b[i]
    ELSE BigLessFrom(a, b, i - 1)

\* a < b
BigLess(a, b) ==
    IF Len(a) # Len(b) THEN Len(a) < Len(b) ELSE BigLessFrom(a, b, Len(a))

RECURSIVE BigMulLimbFrom(_, _, _, _)
BigMulLimbFrom(a, d, i, carry) ==
    IF i > Len(a) THEN (IF carry = 0 THEN <<>> ELSE <<carry>>)
    ELSE LET t == a[i] * d + carry
         IN  <<t % LimbBase>> \o BigMulLimbFrom(a, d, i + 1, t \div LimbBase)

\* a * d, for one digit d > 0
BigMulLimb(a, d) == BigMulLimbFrom(a, d, 1, 0)

RECURSIVE BigMulFrom(_, _, _)
BigMulFrom(a, b, j) ==
    IF j > Len(b) THEN <<>>
    ELSE BigAdd(IF b[j] = 0 THEN <<>> ELSE BigMulLimb(a, b[j]),
                <<0>> \o BigMulFrom(a, b, j + 1))

\* a * b, for a # 0 and b # 0
BigMul(a, b) == BigMulFrom(a, b, 1)

\* a * 2^k
BigShiftLeft(a, k) ==
    IF a = <<>> THEN <<>>
    ELSE [i \in 1 .. (k \div 15) |-> 0] \o BigMulLimb(a, 2 ^ (k % 15))

\* a \div 2^k
BigShiftRight(a, k) ==
    LET q == k \div 15
        r == k % 15
        t == IF q >= Len(a) THEN <<>> ELSE SubSeq(a, q + 1, Len(a))
    IN  BigTrim([i \in 1 .. Len(t) |->
                    (t[i] \div (2 ^ r))
                        + (BigLimb(t, i + 1) % (2 ^ r)) * (2 ^ (15 - r))])

\* Bit k of a, bit 0 the lowest.
BigBit(a, k) ==
    (BigLimb(a, (k \div 15) + 1) \div (2 ^ (k % 15))) % 2

\* Whether the k lowest bits of a are all 0.
BigLowZero(a, k) ==
    /\ \A i \in 1 .. (k \div 15) : BigLimb(a, i) = 0
    /\ BigLimb(a, (k \div 15) + 1) % (2 ^ (k % 15)) = 0

\* The number of bits of a, 0 for 0.
BigBitLength(a) ==
    IF a = <<>> THEN 0
    ELSE (Len(a) - 1) * 15
            + (CHOOSE k \in 1 .. 15 :
                   2 ^ (k - 1) <= a[Len(a)] /\ a[Len(a)] < 2 ^ k)

\* The number of zero bits below the lowest 1 bit of a # 0.
BigTrailingZeros(a) ==
    LET i == CHOOSE i \in 1 .. Len(a) :
                 a[i] # 0 /\ \A j \in 1 .. (i - 1) : a[j] = 0
        t == CHOOSE t \in 0 .. (15 - 1) :
                 a[i] % (2 ^ t) = 0 /\ a[i] % (2 ^ (t + 1)) # 0
    IN  (i - 1) * 15 + t

DblZero == <<0, <<>>, 0>>

\* The number s * m * 2^e with m made odd.
Dyadic(s, m, e) ==
    IF s = 0 \/ m = <<>> THEN DblZero
    ELSE LET t == BigTrailingZeros(m)
         IN  <<s, BigShiftRight(m, t), e + t>>

\* The double nearest the number v, of 53 significant bits, ties to the even
\* significand.
DblRound(v) ==
    LET m == v[2]
        drop == BigBitLength(m) - 53
    IN  IF Len(m) <= 3 \/ drop <= 0 THEN v
        ELSE LET q == BigShiftRight(m, drop)
                 up == /\ BigBit(m, drop - 1) = 1
                       /\ (~BigLowZero(m, drop - 1) \/ BigBit(q, 0) = 1)
             IN  Dyadic(v[1], IF up THEN BigAdd(q, <<1>>) ELSE q, v[3] + drop)

\* The exact product a * b; the product of odd numbers is odd.
ExactMul(a, b) ==
    IF a[1] = 0 \/ b[1] = 0 THEN DblZero
    ELSE IF b[2] = <<1>> THEN <<a[1] * b[1], a[2], a[3] + b[3]>>
    ELSE IF a[2] = <<1>> THEN <<a[1] * b[1], b[2], a[3] + b[3]>>
    ELSE <<a[1] * b[1], BigMul(a[2], b[2]), a[3] + b[3]>>

\* The exact sum a + b.
ExactAdd(a, b) ==
    IF a[1] = 0 THEN b
    ELSE IF b[1] = 0 THEN a
    ELSE LET e == IF a[3] < b[3] THEN a[3] ELSE b[3]
             ma == BigShiftLeft(a[2], a[3] - e)
             mb == BigShiftLeft(b[2], b[3] - e)
         IN  IF a[1] = b[1] THEN Dyadic(a[1], BigAdd(ma, mb), e)
             ELSE IF BigLess(ma, mb) THEN Dyadic(b[1], BigSub(mb, ma), e)
             ELSE Dyadic(a[1], BigSub(ma, mb), e)

\* -a
DblNeg(a) == <<-a[1], a[2], a[3]>>

\* The double of a small integer.
DblFromInt(k) ==
    IF k = 0 THEN DblZero
    ELSE IF Abs(k) = 1 THEN <<k, <<1>>, 0>>
    ELSE Dyadic(Sign(k), <<Abs(k)>>, 0)

\* The double 2^e.
DblPow2(e) == <<1, <<1>>, e>>

\* |a| < 2^e
DblBelowPow2(a, e) == a[1] = 0 \/ BigBitLength(a[2]) + a[3] <= e

\* a * b, rounded; a product with 0 or with a power of 2 is exact.
DblMul(a, b) ==
    IF a[1] = 0 \/ b[1] = 0 \/ a[2] = <<1>> \/ b[2] = <<1>> THEN ExactMul(a, b)
    ELSE DblRound(ExactMul(a, b))

\* a + b, rounded; a sum with 0 is exact.
DblAdd(a, b) ==
    IF a[1] = 0 \/ b[1] = 0 THEN ExactAdd(a, b)
    ELSE DblRound(ExactAdd(a, b))

\* a * b + c with one rounding (a fused multiply-add)
DblFma(a, b, c) == DblRound(ExactAdd(ExactMul(a, b), c))

\* acc + f[lo] + ... + f[hi], added one by one from the left and rounded
\* after every addition.
RECURSIVE DblSum(_, _, _, _)
DblSum(f, lo, hi, acc) ==
    IF lo > hi THEN acc ELSE DblSum(f, lo + 1, hi, DblAdd(acc, f[lo]))

\* The same sum without rounding.
RECURSIVE ExactSum(_, _, _, _)
ExactSum(f, lo, hi, acc) ==
    IF lo > hi THEN acc ELSE ExactSum(f, lo + 1, hi, ExactAdd(acc, f[lo]))

RECURSIVE BigDivLimbFrom(_, _, _, _)
BigDivLimbFrom(a, d, i, rem) ==
    IF i = 0 THEN <<<<>>, rem>>
    ELSE LET t == rem * LimbBase + a[i]
             low == BigDivLimbFrom(a, d, i - 1, t % d)
         IN  <<low[1] \o <<t \div d>>, low[2]>>

\* <<a \div d, a % d>>, for one digit d > 0
BigDivLimb(a, d) ==
    LET qr == BigDivLimbFrom(a, d, Len(a), 0)
    IN  <<BigTrim(qr[1]), qr[2]>>

\* The double nearest the rational r = <<n, d>>, d > 0, of small integers:
\* the quotient n * 2^90 \div d, with one more bit that tells whether the
\* division left a remainder, rounded.
DblFromRat(r) ==
    LET qr == BigDivLimb(BigShiftLeft(BigTrim(<<Abs(r[1])>>), 90), r[2])
        m == BigAdd(BigMulLimb(qr[1], 2), IF qr[2] = 0 THEN <<>> ELSE <<1>>)
    IN  DblRound(Dyadic(Sign(r[1]), m, -91))

---------------------------------------------------------------------------
(* compute_laplacian(G, normalization) and                                 *)
(* compute_connection_laplacian(G, R, normalization)                       *)

\* The most nodes of an input graph.
MaxNodes == 3

\* The largest dimension dim of the transport blocks of R.
MaxDim == 2

\* The normalization argument: None ("none"), "rw" or "sym".
Normalizations == {"none", "rw", "sym"}

\* The undirected graphs on the nodes 0..n-1, 2 <= n <= MaxNodes: any set
\* of edges between different nodes.  manifold_graph builds two kinds.  The
\* 'knn' graph (lines 131-134) has edges of weight 1 and, from A += eye, a
\* self-loop of weight 1 on every node.  The 'affinity' graph (lines
\* 136-140) has the edge weights exp(-d^2 / (2 sigma^2)), sigma = 0.1,
\* positive and below 1 for different points, a self-loop of weight
\* exp(0) = 1 on every node, and no edge where the weight underflows to 0.
\* A graph built otherwise may have no self-loops.  The field weights tells
\* the weights of the edges between different nodes: "unit" (all 1), "far"
\* (the affinities of the points 0, 1, 2, ... of a line, all below 2^-53)
\* or "near" (affinities 1/2 and 1/4, of points closer than sigma).  (scipy
\* treats a 1 x 1 sparse matrix apart, so n = 1 is left out.)
WeightKinds == {"unit", "near", "far"}

Graphs ==
    UNION {{G \in [n : {n},
                   edges : SUBSET {<<i, j>> \in (0 .. (n - 1)) \X (0 .. (n - 1)) : i < j},
                   selfloops : BOOLEAN,
                   weights : WeightKinds] :
               G.weights # "unit" => G.selfloops} :
           n \in 2 .. MaxNodes}

\* Whether G joins i and j (a self-loop when i = j).
HasEdge(G, i, j) ==
    IF i = j THEN G.selfloops ELSE (<<i, j>> \in G.edges \/ <<j, i>> \in G.edges)

\* Line 139 for two points of a line at the distance d = 1, 2 or 3: the
\* float64 np.exp(-d ** 2 / (2 * sigma ** 2)), which is
\* 1.9287498479639315e-22, 1.3838965267367769e-87 and
\* 3.693883068487676e-196.
Affinity(d) ==
    IF d = 1 THEN <<1, <<2169, 10492, 5621, 233>>, -125>>
    ELSE IF d = 2 THEN <<1, <<9941, 4613, 3120, 88>>, -340>>
    ELSE <<1, <<22099, 13865, 14700, 110>>, -701>>

\* The 'weight' attribute of the edge of i and j, a float64: 1 for a
\* self-loop and in a graph of unit weights.
Weight(G, i, j) ==
    IF i = j \/ G.weights = "unit" THEN DblPow2(0)
    ELSE IF G.weights = "far" THEN Affinity(Abs(i - j))
    ELSE IF (i + j) % 2 = 1 THEN DblPow2(-1) ELSE DblPow2(-2)

\* The adjacency matrix networkx builds: the weight of an edge, that of a
\* self-loop once.
Adjacency(G) ==
    [i \in 0 .. (G.n - 1) |-> [j \in 0 .. (G.n - 1) |->
        IF HasEdge(G, i, j) THEN Weight(G, i, j) ELSE DblZero]]

\* G.degree[i]: the number of edge ends at i, a self-loop counting twice;
\* the weights play no part in it.
Degree(G, i) ==
    Cardinality({j \in 0 .. (G.n - 1) : j # i /\ HasEdge(G, i, j)})
        + (IF G.selfloops THEN 2 ELSE 0)

\* nx.laplacian_matrix(G): D - A in float64, D the row sums of A, each the
\* entries of the row added from the left, the self-loop among them.  A
\* weight too small for the sum is lost in it.
LaplacianMatrix(G) ==
    LET A == Adjacency(G)
        D == [i \in 0 .. (G.n - 1) |-> DblSum(A[i], 0, G.n - 1, DblZero)]
    IN  Stored2([i \in 0 .. (G.n - 1) |-> [j \in 0 .. (G.n - 1) |->
            DblAdd(IF i = j THEN D[i] ELSE DblZero, DblNeg(A[i][j]))]])

\* laplacian /= deg (line 22): the sparse matrix divided by the 1-d array
\* deg.  scipy multiplies each stored entry (i, j) by the reciprocal
\* 1.0 / deg[j] of the array broadcast along the rows; an entry that is not
\* stored is not touched.  A stored entry of column j has deg[j] > 0.
DivideByDeg(G, L) ==
    LET recip == Stored([j \in 0 .. (G.n - 1) |->
                    IF Degree(G, j) = 0 THEN DblZero
                    ELSE DblFromRat(<<1, Degree(G, j)>>)])
    IN  [i \in 0 .. (G.n - 1) |-> [j \in 0 .. (G.n - 1) |->
            IF L[i][j] = DblZero THEN DblZero ELSE DblMul(L[i][j], recip[j])]]

\* compute_laplacian, lines 16-25: the float64 matrix it returns.
compute_laplacian(G, normalization) ==
    LET L == LaplacianMatrix(G)
    IN  IF normalization = "rw" THEN DivideByDeg(G, L) ELSE L

\* Orthogonal dim x dim transport blocks: the identity, a signed cyclic
\* shift (a rotation) and a reflection.
Identity(dim) ==
    [a \in 0 .. (dim - 1) |-> [b \in 0 .. (dim - 1) |-> IF a = b THEN 1 ELSE 0]]

Rotation(dim) ==
    [a \in 0 .. (dim - 1) |-> [b \in 0 .. (dim - 1) |->
        IF b = (a + 1) % dim THEN (IF a = dim - 1 THEN -1 ELSE 1) ELSE 0]]

Reflection(dim) ==
    [a \in 0 .. (dim - 1) |-> [b \in 0 .. (dim - 1) |->
        IF a = b THEN (IF a = dim - 1 THEN -1 ELSE 1) ELSE 0]]

Transports(dim) == {Identity(dim), Rotation(dim), Reflection(dim)}

Transpose(M) == [a \in DOMAIN M |-> [b \in DOMAIN M |-> M[b][a]]]

\* The (n*dim) x (n*dim) connection matrices R of G: the identity on the
\* diagonal blocks, a transport T from the higher to the lower numbered node
\* and its transpose back; the blocks of node pairs that are no edge are
\* zero (R sparse) or filled like the others (R dense).
Connections(G) ==
    UNION {{[a \in 0 .. (G.n * dim - 1) |-> [b \in 0 .. (G.n * dim - 1) |->
               LET i == a \div dim
                   j == b \div dim
               IN  IF i = j THEN Identity(dim)[a % dim][b % dim]
                   ELSE IF ~dense /\ ~HasEdge(G, i, j) THEN 0
                   ELSE IF i < j THEN T[a % dim][b % dim]
                   ELSE Transpose(T)[a % dim][b % dim]]] :
              T \in Transports(dim), dense \in BOOLEAN} :
           dim \in 1 .. MaxDim}

\* A variant of the block form with the factors of the Kronecker product
\* swapped, kron(ones(dim, dim), L).multiply(R).
BlockFormKronSwapped(G, R) ==
    LET n == G.n
        dim == Size(R) \div n
        L == compute_laplacian(G, "none")
    IN  [a \in 0 .. (n * dim - 1) |-> [b \in 0 .. (n * dim - 1) |->
            DblMul(L[a % n][b % n], DblFromInt(R[a][b]))]]

\* Lines 49-60: the unnormalised connection Laplacian
\* kron(L, ones(dim, dim)).multiply(R).
BlockForm(G, R) ==
    LET n == G.n
        dim == Size(R) \div n
        L == compute_laplacian(G, "none")
    IN  [a \in 0 .. (n * dim - 1) |-> [b \in 0 .. (n * dim - 1) |->
            DblMul(L[a \div dim][b \div dim], DblFromInt(R[a][b]))]]

\* Lines 64-68: diags(deg_inv) @ Lc, with deg_inv = 1.0 / deg and its
\* infinities set to 0.
NormalizeRw(G, Lc) ==
    LET dim == Size(Lc) \div G.n
        deg_inv == Stored([i \in 0 .. (G.n - 1) |->
                      IF Degree(G, i) = 0 THEN DblZero
                      ELSE DblFromRat(<<1, Degree(G, i)>>)])
    IN  [a \in DOMAIN Lc |-> [b \in DOMAIN Lc |->
            DblMul(deg_inv[a \div dim], Lc[a][b])]]

\* The arguments of a call of either function.
LapInit ==
    /\ fps = Idle /\ vd = Idle /\ proj = Idle
    /\ \E G \in Graphs, normalization \in Normalizations :
        \/ lap = [pc |-> "call", fn |-> "compute_laplacian", G |-> G, R |-> None,
                  normalization |-> normalization, Lc |-> None,
                  result |-> None, error |-> NoError]
        \/ \E R \in Connections(G) :
              lap = [pc |-> "call", fn |-> "compute_connection_laplacian",
                     G |-> G, R |-> R, normalization |-> normalization,
                     Lc |-> None, result |-> None, error |-> NoError]

\* compute_laplacian, lines 16-25.
ComputeLaplacian ==
    /\ lap.pc = "call"
    /\ lap.fn = "compute_laplacian"
    /\ lap' = [lap EXCEPT !.pc = "done",
                          !.result = compute_laplacian(lap.G, lap.normalization)]
    /\ UNCHANGED <<fps, vd, proj>>

\* compute_connection_laplacian, lines 49-60.
ConnectionBlockForm ==
    /\ lap.pc = "call"
    /\ lap.fn = "compute_connection_laplacian"
    /\ lap' = [lap EXCEPT !.pc = "normalize", !.Lc = BlockForm(lap.G, lap.R)]
    /\ UNCHANGED <<fps, vd, proj>>

\* Lines 63-68 and 73.
ConnectionNormalizeRw ==
    /\ lap.pc = "normalize"
    /\ lap.normalization = "rw"
    /\ lap' = [lap EXCEPT !.pc = "done", !.result = NormalizeRw(lap.G, lap.Lc)]
    /\ UNCHANGED <<fps, vd, proj>>

\* Lines 70-71.
ConnectionRaiseSym ==
    /\ lap.pc = "normalize"
    /\ lap.normalization = "sym"
    /\ lap' = [lap EXCEPT !.pc = "error", !.error = "NotImplementedError"]
    /\ UNCHANGED <<fps, vd, proj>>

\* Line 73 with no normalization.
ConnectionReturn ==
    /\ lap.pc = "normalize"
    /\ lap.normalization = "none"
    /\ lap' = [lap EXCEPT !.pc = "done", !.result = lap.Lc]
    /\ UNCHANGED <<fps, vd, proj>>

LapNext ==
    \/ ComputeLaplacian
    \/ ConnectionBlockForm
    \/ ConnectionNormalizeRw
    \/ ConnectionRaiseSym
    \/ ConnectionReturn

SpecLap == LapInit /\ [][LapNext]_vars

---------------------------------------------------------------------------
(* Claims about the Laplacians.                                            *)

\* compute_laplacian returned for the "rw" normalization.
LapRwReturned ==
    /\ lap.pc = "done"
    /\ lap.fn = "compute_laplacian"
    /\ lap.normalization = "rw"

\* C1: compute_laplacian(G, "rw") returns D - A with row i divided by the
\* degree of node i: entry (i, j) times the degree of i is entry (i, j) of
\* D - A and every row sums to 0, both within 2^-40, and the row of a node
\* of degree 0 is zero.  (Every double of the model is finite: the division
\* touches stored entries only, and their column has a positive degree.)
C1_RwDividesRows ==
    LapRwReturned =>
        LET G == lap.G
            L == LaplacianMatrix(G)
            nodes == 0 .. (G.n - 1)
        IN  \A i \in nodes :
               /\ \A j \in nodes :
                     IF Degree(G, i) = 0 THEN lap.result[i][j] = DblZero
                     ELSE DblBelowPow2(
                              ExactAdd(ExactMul(lap.result[i][j],
                                                DblFromInt(Degree(G, i))),
                                       DblNeg(L[i][j])), -40)
               /\ DblBelowPow2(ExactSum(lap.result[i], 0, G.n - 1, DblZero),
                               -40)

\* The unnormalised connection Laplacian was returned.
ConnReturned ==
    /\ lap.pc = "done"
    /\ lap.fn = "compute_connection_laplacian"
    /\ lap.normalization = "none"

\* The dim x dim block (i, j) of M holds a nonzero entry.
BlockNonzero(M, dim, i, j) ==
    \E a \in 0 .. (dim - 1), b \in 0 .. (dim - 1) :
        M[i * dim + a][j * dim + b] # DblZero

\* Every entry of block (i, j) of the result is L(i,j) times that of R.
BlockIsWeightedTransport(L, dim, i, j) ==
    \A a \in 0 .. (dim - 1), b \in 0 .. (dim - 1) :
        lap.result[i * dim + a][j * dim + b] =
            DblMul(L[i][j], DblFromInt(lap.R[i * dim + a][j * dim + b]))

\* Node i has a neighbour other than itself.
HasNeighbour(G, i) == \E k \in 0 .. (G.n - 1) : k # i /\ HasEdge(G, i, k)

\* C2 as stated: block (i, j) of the unnormalised connection Laplacian is
\* nonzero exactly when i = j or (i, j) is an edge of G, and each nonzero
\* off-diagonal block is L(i,j) * R(i,j).
C2_BlockPattern ==
    ConnReturned =>
        LET dim == Size(lap.R) \div lap.G.n
            L == LaplacianMatrix(lap.G)
        IN  \A i \in 0 .. (lap.G.n - 1), j \in 0 .. (lap.G.n - 1) :
               /\ BlockNonzero(lap.result, dim, i, j)
                     <=> (i = j \/ HasEdge(lap.G, i, j))
               /\ (i # j /\ BlockNonzero(lap.result, dim, i, j))
                     => BlockIsWeightedTransport(L, dim, i, j)

\* Node i has a neighbour other than itself joined to it by an edge whose
\* weight is at least 2^-52, the spacing of the doubles at 1.
HasHeavyNeighbour(G, i) ==
    \E k \in 0 .. (G.n - 1) :
        k # i /\ HasEdge(G, i, k) /\ ~DblBelowPow2(Weight(G, i, k), -52)

\* C2, amended: for positive edge weights and self-loops of weight 1, an
\* off-diagonal block (i, j) is nonzero exactly when (i, j) is an edge, and
\* is then L(i,j) * R(i,j).  The diagonal block of node i is zero when i
\* has no neighbour other than itself; it is nonzero when i has one and
\* either carries no self-loop or is joined to one by a weight of at least
\* 2^-52.  (Smaller weights may be lost against the self-loop in the row
\* sum of D, and the diagonal block is then zero.)
C2_BlockPatternOfNeighbours ==
    ConnReturned =>
        LET dim == Size(lap.R) \div lap.G.n
            nodes == 0 .. (lap.G.n - 1)
            L == LaplacianMatrix(lap.G)
        IN  /\ \A i \in nodes, j \in nodes :
                  i # j =>
                     /\ BlockNonzero(lap.result, dim, i, j) <=> HasEdge(lap.G, i, j)
                     /\ BlockNonzero(lap.result, dim, i, j)
                           => BlockIsWeightedTransport(L, dim, i, j)
            /\ \A i \in nodes :
                  /\ BlockNonzero(lap.result, dim, i, i) => HasNeighbour(lap.G, i)
                  /\ (/\ HasNeighbour(lap.G, i)
                      /\ (~lap.G.selfloops \/ HasHeavyNeighbour(lap.G, i)))
                        => BlockNonzero(lap.result, dim, i, i)

\* A graph of far affinities with an edge whose weight is lost in the row
\* sum (a zero diagonal block of a node with a neighbour), a node without
\* neighbours and a pair that is no edge although R holds a transport block
\* for it, with dim >= 2.
C2_Witness ==
    /\ ConnReturned
    /\ lap.G.weights = "far"
    /\ Size(lap.R) \div lap.G.n >= 2
    /\ \E i \in 0 .. (lap.G.n - 1) :
          /\ HasNeighbour(lap.G, i)
          /\ ~BlockNonzero(lap.result, Size(lap.R) \div lap.G.n, i, i)
    /\ \E i \in 0 .. (lap.G.n - 1) : ~HasNeighbour(lap.G, i)
    /\ \E i \in 0 .. (lap.G.n - 1), j \in 0 .. (lap.G.n - 1) :
          /\ i # j
          /\ ~HasEdge(lap.G, i, j)
          /\ \E a \in 0 .. (Size(lap.R) \div lap.G.n - 1),
                b \in 0 .. (Size(lap.R) \div lap.G.n - 1) :
                lap.R[i * (Size(lap.R) \div lap.G.n) + a]
                     [j * (Size(lap.R) \div lap.G.n) + b] # 0

\* C7: a call of compute_laplacian or compute_connection_laplacian with the
\* "sym" normalization ends in the unsupported-configuration error and
\* returns no matrix.
C7_SymRaises ==
    (lap.pc \in {"done", "error"} /\ lap.normalization = "sym")
    => (/\ lap.pc = "error"
        /\ lap.error = "NotImplementedError"
        /\ lap.result = None)

---------------------------------------------------------------------------
(* furthest_point_sampling(x, N=None, stop_crit=0.1, start_idx=0)          *)

\* The most points of an input point set.
MaxPoints == 6

\* The coarse positions of the points are the integers 0..MaxCoord (points
\* on a line, dim = 1).
MaxCoord == 1

\* The index the function starts from: line 168 overrides the argument.
StartIdx == 5

\* The default of the stop_crit argument, 0.1.
DefaultStopCrit == <<1, 10>>

\* The values of stop_crit tried: 0.0 (no sampling), the default, fractions
\* the integer distances can hit or cross, and a negative one.
StopCrits == {<<0, 1>>, DefaultStopCrit, <<1, 2>>, <<1, 1>>, <<-1, 2>>}

\* The values of N tried: not given, none, a few, all the points, one more
\* than there can be.
SampleCounts == {None, <<0>>, <<3>>, <<MaxPoints>>, <<MaxPoints + 1>>}

\* The point sets (n x 1 arrays), n from StartIdx (too few for the start
\* index) to MaxPoints.  Each point k has a coarse position c[k] in
\* 0..MaxCoord; either x[k] = c[k], and points coincide, or
\* x[k] = n * c[k] + k, and no two do.
PointSets ==
    UNION {{[k \in 0 .. (n - 1) |-> IF spread THEN n * c[k] + k ELSE c[k]] :
              c \in [0 .. (n - 1) -> 0 .. MaxCoord], spread \in BOOLEAN} :
           n \in StartIdx .. MaxPoints}

\* sklearn's pairwise_distances(x): the Euclidean distance matrix.
PairwiseDistances(x) ==
    [a \in DOMAIN x |-> [b \in DOMAIN x |-> Abs(x[a] - x[b])]]

\* D.max()
MatMax(D) ==
    CHOOSE m \in {D[a][b] : a \in DOMAIN D, b \in DOMAIN D} :
        \A a \in DOMAIN D, b \in DOMAIN D : D[a][b] <= m

\* A variant of np.argmax that breaks ties towards the last index.
ArgmaxLast(ds) ==
    CHOOSE k \in DOMAIN ds :
        /\ \A j \in DOMAIN ds : ds[j] <= ds[k]
        /\ \A j \in DOMAIN ds : j > k => ds[j] < ds[k]

\* np.argmax(ds): the first index holding the maximum.
Argmax(ds) ==
    CHOOSE k \in DOMAIN ds :
        /\ \A j \in DOMAIN ds : ds[j] <= ds[k]
        /\ \A j \in DOMAIN ds : j < k => ds[j] < ds[k]

\* Variants of the update of ds: np.maximum in place of np.minimum, and the
\* new row alone (the running minimum forgotten).
MinimumAsMaximum(ds, row) ==
    [k \in DOMAIN ds |-> IF row[k] > ds[k] THEN row[k] ELSE ds[k]]

MinimumAsRow(ds, row) == row

\* np.minimum(ds, row): the element-wise minimum.
Minimum(ds, row) ==
    [k \in DOMAIN ds |-> IF row[k] < ds[k] THEN row[k] ELSE ds[k]]

\* A variant of the stop test with <= in place of <.
BelowStopCritOrEqual(lam, diam, stop_crit) ==
    LET q == RatDiv(<<lam, 1>>, <<diam, 1>>)
    IN  RatLt(q, stop_crit) \/ (~IsNaN(q) /\ q = stop_crit)

\* lambdas[i] / diam < stop_crit, in IEEE arithmetic (0/0 is NaN, and NaN is
\* below nothing).
BelowStopCrit(lam, diam, stop_crit) ==
    RatLt(RatDiv(<<lam, 1>>, <<diam, 1>>), stop_crit)

\* The arguments of a call.
FpsInit ==
    /\ lap = Idle /\ vd = Idle /\ proj = Idle
    /\ \E x \in PointSets, N \in SampleCounts, sc \in StopCrits :
        \* stop_crit is only read when N is None, or to test it against 0.0
        /\ (N # None => sc \in {<<0, 1>>, DefaultStopCrit})
        /\ fps = [pc |-> "call", x |-> x, N |-> N, stop_crit |-> sc,
                  n |-> 0, diam |-> 0, i |-> 0,
                  perm |-> <<>>, lambdas |-> <<>>, ds |-> <<>>,
                  error |-> NoError]

\* Lines 161-162: stop_crit == 0.0 returns every index and no distances.
FpsReturnAll ==
    /\ fps.pc = "call"
    /\ fps.stop_crit = <<0, 1>>
    /\ fps' = [fps EXCEPT !.pc = "done",
                          !.perm = [k \in DOMAIN fps.x |-> k],
                          !.lambdas = None]
    /\ UNCHANGED <<lap, vd, proj>>

\* Lines 164-173 when an index is out of range: perm[0] of an empty perm
\* (N = 0), or row start_idx of a D with too few rows.
FpsIndexError ==
    /\ fps.pc = "call"
    /\ fps.stop_crit # <<0, 1>>
    /\ LET n == IF fps.N = None THEN Size(fps.x) ELSE fps.N[1]
       IN  /\ (n = 0 \/ StartIdx >= Size(fps.x))
           /\ fps' = [fps EXCEPT !.pc = "error", !.n = n,
                                 !.diam = MatMax(PairwiseDistances(fps.x)),
                                 !.error = "IndexError"]
    /\ UNCHANGED <<lap, vd, proj>>

\* Lines 164-173: the distance matrix, the arrays and the first point.
FpsSetup ==
    /\ fps.pc = "call"
    /\ fps.stop_crit # <<0, 1>>
    /\ LET D == PairwiseDistances(fps.x)
           n == IF fps.N = None THEN Size(fps.x) ELSE fps.N[1]
       IN  /\ n > 0
           /\ StartIdx < Size(fps.x)
           /\ fps' = [fps EXCEPT
                        !.pc = "loop", !.n = n, !.diam = MatMax(D), !.i = 1,
                        !.perm = [k \in 0 .. (n - 1) |->
                                     IF k = 0 THEN StartIdx ELSE 0],
                        !.lambdas = [k \in 0 .. (n - 1) |-> 0],
                        !.ds = D[StartIdx]]
    /\ UNCHANGED <<lap, vd, proj>>

\* Lines 174-184: one iteration of the loop, its stop test included.
FpsIter ==
    /\ fps.pc = "loop"
    /\ fps.i < fps.n
    /\ LET D == PairwiseDistances(fps.x)
           i == fps.i
           idx == Argmax(fps.ds)
           perm == [fps.perm EXCEPT ![i] = idx]
           lambdas == [fps.lambdas EXCEPT ![i] = fps.ds[idx]]
           ds == Minimum(fps.ds, D[idx])
       IN  IF fps.N = None /\ BelowStopCrit(lambdas[i], fps.diam, fps.stop_crit)
           THEN fps' = [fps EXCEPT
                          !.pc = "done", !.ds = ds,
                          !.perm = [k \in 0 .. (i - 1) |-> perm[k]],
                          !.lambdas = [k \in 0 .. (i - 1) |-> lambdas[k]]]
           ELSE fps' = [fps EXCEPT !.i = i + 1, !.ds = ds,
                                   !.perm = perm, !.lambdas = lambdas]
    /\ UNCHANGED <<lap, vd, proj>>

\* Line 186, reached when range(1, n) is exhausted.
FpsReturn ==
    /\ fps.pc = "loop"
    /\ fps.i >= fps.n
    /\ fps' = [fps EXCEPT !.pc = "done"]
    /\ UNCHANGED <<lap, vd, proj>>

FpsNext == FpsReturnAll \/ FpsIndexError \/ FpsSetup \/ FpsIter \/ FpsReturn

SpecFps == FpsInit /\ [][FpsNext]_vars


\* The points of x are pairwise at a nonzero distance.
FpsDistinctPoints ==
    \A a \in DOMAIN fps.x, b \in DOMAIN fps.x :
        a # b => PairwiseDistances(fps.x)[a][b] # 0

\* perm holds no index twice.
FpsInjective ==
    \A a \in DOMAIN fps.perm, b \in DOMAIN fps.perm :
        a # b => fps.perm[a] # fps.perm[b]

\* The call ran the sampling (stop_crit is not 0.0) and returned.
FpsSampled == fps.pc = "done" /\ fps.stop_crit # <<0, 1>>

\* The distance of point j to the nearest of perm[0], ..., perm[k-1],
\* computed from the coordinates.
FpsMinDist(j, k) ==
    LET dists == {Abs(fps.x[j] - fps.x[fps.perm[m]]) : m \in 0 .. (k - 1)}
    IN  CHOOSE d \in dists : \A e \in dists : d <= e

\* The largest of those distances over all points.
FpsMaxMinDist(k) ==
    LET dists == {FpsMinDist(j, k) : j \in DOMAIN fps.x}
    IN  CHOOSE d \in dists : \A e \in dists : e <= d

\* C3 as stated: whenever the sampling returns, for any point set, any
\* stop_crit other than 0.0 and any N, perm holds no index twice.
C3_NoDuplicates == FpsSampled => FpsInjective

\* C3, amended: perm holds no index twice when no two points coincide and N
\* is not given or is at most the number of points.
C3_NoDuplicatesDistinctPoints ==
    (/\ FpsSampled
     /\ FpsDistinctPoints
     /\ (fps.N = None \/ fps.N[1] <= Size(fps.x)))
    => FpsInjective

\* Every one of MaxPoints distinct points was asked for and returned.
C3_Witness ==
    /\ FpsSampled
    /\ FpsDistinctPoints
    /\ fps.N = <<MaxPoints>>
    /\ Size(fps.perm) = MaxPoints

\* C4: after the setup and after every iteration of the loop, and in what
\* is returned, lambdas[i] >= lambdas[i+1] for every i >= 1.
C4_LambdasNonIncreasing ==
    (fps.pc \in {"loop", "done"} /\ fps.stop_crit # <<0, 1>>)
    => \A k \in DOMAIN fps.lambdas :
          (k >= 1 /\ (k + 1) \in DOMAIN fps.lambdas)
          => fps.lambdas[k] >= fps.lambdas[k + 1]

\* A returned distance sequence that strictly decreases twice.
C4_Witness ==
    /\ FpsSampled
    /\ Size(fps.lambdas) >= 4
    /\ fps.lambdas[1] > fps.lambdas[2]
    /\ fps.lambdas[2] > fps.lambdas[3]
    /\ fps.lambdas[3] > 0

\* C9: at every step k >= 1 taken so far, perm[k] is the lowest-numbered
\* point whose distance to the nearest of perm[0..k-1] is largest, and
\* lambdas[k] is that distance.
C9_GreedyMaxMin ==
    (fps.pc \in {"loop", "done"} /\ fps.stop_crit # <<0, 1>>)
    => \A k \in 1 .. (fps.i - 1) :
          /\ k \in DOMAIN fps.perm
          /\ fps.perm[k] \in DOMAIN fps.x
          /\ FpsMinDist(fps.perm[k], k) = FpsMaxMinDist(k)
          /\ \A j \in DOMAIN fps.x :
                j < fps.perm[k] => FpsMinDist(j, k) < FpsMaxMinDist(k)
          /\ fps.lambdas[k] = FpsMaxMinDist(k)

\* A returned sample in which a step had two furthest points, at a positive
\* distance, and the lower-numbered one was taken.
C9_Witness ==
    /\ FpsSampled
    /\ Size(fps.perm) >= 3
    /\ \E k \in 1 .. (Size(fps.perm) - 1) :
          /\ fps.lambdas[k] > 0
          /\ \E j \in DOMAIN fps.x :
                j > fps.perm[k] /\ FpsMinDist(j, k) = fps.lambdas[k]

\* C10: with N not given, perm and lambdas are returned with the same
\* length m, every lambdas[k], k >= 1, is at least stop_crit * diam, and if
\* the sampling stopped short of all the points then the distance of the
\* next furthest point is below stop_crit * diam.
C10_StopAtFirstBelow ==
    (FpsSampled /\ fps.N = None)
    => LET m == Size(fps.perm)
           p == fps.stop_crit[1]
           q == fps.stop_crit[2]
           diam == MatMax(PairwiseDistances(fps.x))
       IN  /\ DOMAIN fps.perm = 0 .. (m - 1)
           /\ DOMAIN fps.lambdas = 0 .. (m - 1)
           /\ m >= 1
           /\ \A k \in 1 .. (m - 1) : fps.lambdas[k] * q >= p * diam
           /\ m < Size(fps.x) => FpsMaxMinDist(m) * q < p * diam

\* A sampling that stopped early, after taking at least two more points.
C10_Witness ==
    /\ FpsSampled
    /\ fps.N = None
    /\ Size(fps.perm) >= 3
    /\ Size(fps.perm) < Size(fps.x)
    /\ fps.lambdas[2] > 0

---------------------------------------------------------------------------
(* vector_diffusion(x, t, Lc, L=None, method="spectral", normalise=True)   *)
(* and the scalar_diffusion it calls.  The model follows the shapes of the *)
(* arrays and the order of the checks and calls, not the diffused values.  *)

\* The most nodes n of the vector field x (an n x d array).
MaxFieldNodes == 3

\* The largest dimension d of the vectors of x.
MaxFieldDim == 2

\* The most rows of the connection Laplacian an Lc argument comes from.
MaxRows == 6

\* The method argument: the two implemented ones and an unknown one.
Methods == {"matrix_exp", "spectral", "euler"}

\* The error messages of the assertions, lines 235, 242-243 and 251.  The
\* message of lines 242-243 is one string literal continued over two lines,
\* so the indentation of line 243 is part of it.
TupleError == "AssertionError: Lc must be a tuple of eigenvalues, eigenvectors!"

DimensionError ==
    "AssertionError: Data dimension must be an integer multiple of the dimensions          of the connection Laplacian!"

LaplacianError == "AssertionError: Need Laplacian for normalised diffusion!"

\* The Lc arguments of a method.  For "spectral" a tuple (evals, evecs, ...)
\* of the k smallest eigenpairs of a connection Laplacian of `rows` rows:
\* evals has shape (k,), evecs (rows, k).  Otherwise the sparse rows x rows
\* connection Laplacian itself.
Operators(method) ==
    IF method = "spectral"
    THEN {p \in [kind : {"tuple"}, len : {2, 3}, rows : 1 .. MaxRows,
                 k : 1 .. MaxRows] : p.k <= p.rows}
    ELSE [kind : {"matrix"}, len : {0}, rows : 1 .. MaxRows, k : {0}]

\* The message of the assertion of lines 211-214, one string literal
\* continued over two lines with the indentation of line 214 in it.
SpectralParError ==
    "AssertionError: For spectral method, par must be a tuple of             eigenvalues, eigenvectors!"

\* scalar_diffusion(x, t, method, par), lines 201-227, for a numpy array x
\* of ndim dimensions: "ok" when it returns the diffused array, else the
\* exception it raises.  A 1-d array has no unsqueeze (line 204); the
\* "matrix_exp" branch calls par.todense() (line 207), which a tuple does
\* not have; the "spectral" branch passes its assertion and then reads
\* np.mm (line 218), which numpy does not have.
scalar_diffusion(ndim, method, par) ==
    IF ndim = 1
    THEN "AttributeError: 'numpy.ndarray' object has no attribute 'unsqueeze'"
    ELSE IF method = "matrix_exp"
         THEN (IF par.kind = "matrix" THEN "ok"
               ELSE "AttributeError: 'tuple' object has no attribute 'todense'")
    ELSE IF method = "spectral"
         THEN (IF par.kind = "tuple" /\ par.len = 2
               THEN "AttributeError: module 'numpy' has no attribute 'mm'"
               ELSE SpectralParError)
    ELSE "NotImplementedError"

\* Lines 234-238: nd, the first dimension the field is reshaped to.
BlockedDimension(method, Lc) ==
    IF method = "spectral" THEN Lc.k ELSE Lc.rows

\* The L arguments: None (the default), the sparse n x n Laplacian, or a
\* pair of its eigenvalues and eigenvectors.
Laplacians(n) ==
    {None, [kind |-> "matrix", len |-> 0, rows |-> n, k |-> 0],
           [kind |-> "tuple", len |-> 2, rows |-> n, k |-> n]}

\* The arguments of a call.  Lc's kind fits the method; L is any of the
\* above.
VdInit ==
    /\ lap = Idle /\ fps = Idle /\ proj = Idle
    /\ \E n \in 1 .. MaxFieldNodes, d \in 1 .. MaxFieldDim, method \in Methods,
          normalise \in BOOLEAN :
          \E Lc \in Operators(method), L \in Laplacians(n) :
              vd = [pc |-> "call", n |-> n, d |-> d, method |-> method,
                    Lc |-> Lc,
                    L |-> L,
                    normalise |-> normalise,
                    nd |-> 0, reshaped |-> None, out_shape |-> None,
                    calls |-> 0,
                    error |-> NoError]

\* Line 235: the "spectral" Lc is not a pair.
VdTupleError ==
    /\ vd.pc = "call"
    /\ vd.method = "spectral"
    /\ vd.Lc.len # 2
    /\ vd' = [vd EXCEPT !.pc = "error", !.error = TupleError]
    /\ UNCHANGED <<lap, fps, proj>>

\* Lines 232-238: n, d and nd.
VdBlockedDimension ==
    /\ vd.pc = "call"
    /\ vd.method = "spectral" => vd.Lc.len = 2
    /\ vd' = [vd EXCEPT !.pc = "check",
                        !.nd = BlockedDimension(vd.method, vd.Lc)]
    /\ UNCHANGED <<lap, fps, proj>>

\* Lines 240-243 when the assertion fails.
VdDimensionError ==
    /\ vd.pc = "check"
    /\ (vd.n * vd.d) % vd.nd # 0
    /\ vd' = [vd EXCEPT !.pc = "error", !.error = DimensionError]
    /\ UNCHANGED <<lap, fps, proj>>

\* Lines 240-248: the assertion holds, x is reshaped to (nd, -1) and
\* scalar_diffusion is called with Lc; it returns or raises.
VdDiffuse ==
    /\ vd.pc = "check"
    /\ (vd.n * vd.d) % vd.nd = 0
    /\ LET r == scalar_diffusion(2, vd.method, vd.Lc)
       IN  vd' = [vd EXCEPT
                    !.reshaped = <<vd.nd, (vd.n * vd.d) \div vd.nd>>,
                    !.out_shape = IF r = "ok" THEN <<vd.n, vd.d>> ELSE None,
                    !.calls = vd.calls + 1,
                    !.pc = IF r = "ok" THEN "diffused" ELSE "error",
                    !.error = IF r = "ok" THEN NoError ELSE r]
    /\ UNCHANGED <<lap, fps, proj>>

\* Lines 250 and 257: no normalisation.
VdReturn ==
    /\ vd.pc = "diffused"
    /\ ~vd.normalise
    /\ vd' = [vd EXCEPT !.pc = "done"]
    /\ UNCHANGED <<lap, fps, proj>>

\* Lines 250-251 when L is None.
VdLaplacianError ==
    /\ vd.pc = "diffused"
    /\ vd.normalise
    /\ vd.L = None
    /\ vd' = [vd EXCEPT !.pc = "error", !.error = LaplacianError]
    /\ UNCHANGED <<lap, fps, proj>>

\* Lines 250-257: the two calls of scalar_diffusion with L and the (n, 1)
\* arrays x_abs and ones, and the return; the first call that raises ends
\* the function.
VdNormalise ==
    /\ vd.pc = "diffused"
    /\ vd.normalise
    /\ vd.L # None
    /\ LET r == scalar_diffusion(2, vd.method, vd.L)
       IN  vd' = [vd EXCEPT
                    !.calls = vd.calls + (IF r = "ok" THEN 2 ELSE 1),
                    !.pc = IF r = "ok" THEN "done" ELSE "error",
                    !.error = IF r = "ok" THEN NoError ELSE r]
    /\ UNCHANGED <<lap, fps, proj>>

VdNext ==
    \/ VdTupleError
    \/ VdBlockedDimension
    \/ VdDimensionError
    \/ VdDiffuse
    \/ VdReturn
    \/ VdLaplacianError
    \/ VdNormalise

SpecVd == VdInit /\ [][VdNext]_vars

\* C5: a call with normalise = True and L = None raises the missing-Laplacian
\* error before scalar_diffusion was ever called.
C5_LaplacianErrorBeforeDiffusion ==
    vd.error = LaplacianError => vd.calls = 0

\* C6: for "matrix_exp" and "spectral", a field whose size n * d is no
\* multiple of the row count of the connection Laplacian ends in the
\* dimension-mismatch error, and a field that is diffused was reshaped to
\* that row count.
C6_DimensionMismatchRaised ==
    (/\ vd.pc \in {"diffused", "done", "error"}
     /\ vd.method \in {"matrix_exp", "spectral"}
     /\ vd.error # TupleError)
    => /\ (vd.n * vd.d) % vd.Lc.rows # 0 => vd.error = DimensionError
       /\ vd.calls > 0 => vd.reshaped[1] = vd.Lc.rows


---------------------------------------------------------------------------
(* project_to_manifold(x, gauges) and project_to_local_frame               *)

\* The most points b of a batch.
MaxBatch == 1

\* The shapes (dim, k) of one gauge: k frame vectors of an ambient space of
\* dimension dim (a curve and the plane in the plane, a surface in space).
GaugeShapes == {<<2, 1>>, <<2, 2>>, <<3, 2>>}

\* The entries of the frame vectors: 0, 3/5, 4/5 and -4/5 (slanted frames).
FrameEntries == {<<0, 1>>, <<3, 5>>, <<4, 5>>, <<-4, 5>>}

\* The float64 arrays of a vector and of a matrix of rationals.
AsVector(x) == [i \in DOMAIN x |-> DblFromRat(x[i])]

AsMatrix(g) == [i \in DOMAIN g |-> AsVector(g[i])]

\* The vectors x of an ambient space: (1, 1, 1), (-1, 0, 1) and (1, -2, 4),
\* cut to its dimension; for dim = 3 a basis.
VectorPower(a, i) == IF i = 0 THEN 1 ELSE IF i = 1 THEN a ELSE a * a

Vectors(dim) ==
    {AsVector([i \in 0 .. (dim - 1) |-> <<1, 1>>]),
     AsVector([i \in 0 .. (dim - 1) |-> <<i - 1, 1>>]),
     AsVector([i \in 0 .. (dim - 1) |-> <<VectorPower(-2, i), 1>>])}

\* The dot product of columns j and l of the dim x k matrix g of rationals.
ColumnDot(g, dim, j, l) ==
    RatSum([i \in 0 .. (dim - 1) |-> RatMul(g[i][j], g[i][l])], 0, dim - 1)

\* The orthonormal gauges of a shape, as float64 arrays: gauge[i][j] is
\* component i of frame vector j, and the frame vectors are mutually
\* orthogonal unit vectors whose components are rounded to float64.
Gauges(dim, k) ==
    {AsMatrix(g) :
        g \in {h \in [0 .. (dim - 1) -> [0 .. (k - 1) -> FrameEntries]] :
                  \A j \in 0 .. (k - 1), l \in 0 .. (k - 1) :
                      ColumnDot(h, dim, j, l)
                          = (IF j = l THEN <<1, 1>> ELSE <<0, 1>>)}}

\* The order in which an einsum loop adds up the products of one output
\* element is left to the numpy build: first term first or last term first,
\* each product rounded before it is added or fused with the addition.
SumOrders == {"forward", "backward", "fused", "fused_backward"}

RECURSIVE Accumulate(_, _, _, _, _)
Accumulate(a, b, ks, fused, acc) ==
    IF ks = <<>> THEN acc
    ELSE Accumulate(a, b, Tail(ks), fused,
                    IF fused THEN DblFma(a[Head(ks)], b[Head(ks)], acc)
                    ELSE DblAdd(acc, DblMul(a[Head(ks)], b[Head(ks)])))

\* The sum over i of a[i] * b[i] as a float64 loop computes it.
SumOfProducts(a, b, order) ==
    LET n == Size(a)
        ks == IF order \in {"backward", "fused_backward"}
              THEN [t \in 1 .. n |-> n - t]
              ELSE [t \in 1 .. n |-> t - 1]
    IN  Accumulate(a, b, ks, order \in {"fused", "fused_backward"}, DblZero)

\* np.einsum("bij,bi->bj", gauges, x)
EinsumBijBi(gauges, x, order) ==
    Stored2([b \in DOMAIN x |->
        [j \in DOMAIN gauges[b][0] |->
            SumOfProducts([i \in DOMAIN x[b] |-> gauges[b][i][j]], x[b], order)]])

\* np.einsum("bji,bi->bj", gauges, x)
EinsumBjiBi(gauges, x, order) ==
    Stored2([b \in DOMAIN x |->
        [j \in DOMAIN gauges[b] |->
            SumOfProducts([i \in DOMAIN x[b] |-> gauges[b][j][i]], x[b], order)]])

\* np.einsum("bj,bij->bi", coeffs, gauges)
EinsumBjBij(coeffs, gauges, order) ==
    Stored2([b \in DOMAIN coeffs |->
        [i \in DOMAIN gauges[b] |->
            SumOfProducts(coeffs[b], [j \in DOMAIN coeffs[b] |-> gauges[b][i][j]],
                          order)]])

\* project_to_local_frame, lines 194-198.
project_to_local_frame(x, gauges, reverse, order) ==
    IF reverse THEN EinsumBjiBi(gauges, x, order)
    ELSE EinsumBijBi(gauges, x, order)

\* A variant of project_to_manifold with the gauge indices of the first
\* product swapped, "bji,bi->bj" (on square gauges, where the swapped product
\* has a shape).
project_to_manifold_swapped(x, gauges, order) ==
    LET square == Size(gauges[0]) = Size(gauges[0][0])
        coeffs == IF square THEN EinsumBjiBi(gauges, x, order)
                  ELSE EinsumBijBi(gauges, x, order)
    IN  EinsumBjBij(coeffs, gauges, order)

\* project_to_manifold, lines 189-191.
project_to_manifold(x, gauges, order) ==
    LET coeffs == EinsumBijBi(gauges, x, order)
    IN  EinsumBjBij(coeffs, gauges, order)

\* The arguments of a call, b vectors and b gauges of one shape, and the
\* summation order of the build.
ProjInit ==
    /\ lap = Idle /\ fps = Idle /\ vd = Idle
    /\ \E b \in 1 .. MaxBatch, shape \in GaugeShapes, order \in SumOrders :
          \E x \in [0 .. (b - 1) -> Vectors(shape[1])],
             gauges \in [0 .. (b - 1) -> Gauges(shape[1], shape[2])] :
              proj = [pc |-> "call",
                      x |-> x, gauges |-> gauges, order |-> order, once |-> None, twice |-> None]

\* project_to_manifold(x, gauges)
ProjectOnce ==
    /\ proj.pc = "call"
    /\ proj' = [proj EXCEPT
                  !.pc = "once",
                  !.once = project_to_manifold(proj.x, proj.gauges, proj.order)]
    /\ UNCHANGED <<lap, fps, vd>>

\* project_to_manifold(project_to_manifold(x, gauges), gauges)
ProjectTwice ==
    /\ proj.pc = "once"
    /\ proj' = [proj EXCEPT
                  !.pc = "twice",
                  !.twice = project_to_manifold(proj.once, proj.gauges, proj.order)]
    /\ UNCHANGED <<lap, fps, vd>>

ProjNext == ProjectOnce \/ ProjectTwice

SpecProj == ProjInit /\ [][ProjNext]_vars

\* C8 as stated: for an orthonormal gauge, projecting twice gives exactly
\* what projecting once gives.
C8_ProjectionIdempotent == proj.pc = "twice" => proj.twice = proj.once

\* |u - v| < 2^-40 * max |x[i]|, for doubles u, v and a vector x of doubles.
WithinRounding(u, v, x) ==
    LET diff == ExactAdd(u, DblNeg(v))
    IN  \/ diff = DblZero
        \/ \E i \in DOMAIN x :
              ExactAdd(<<1, diff[2], diff[3] + 40>>,
                       <<-Abs(x[i][1]), x[i][2], x[i][3]>>)[1] < 0

\* C8, amended: for an orthonormal gauge, every component of the vector
\* projected twice is within floating point rounding of that of the vector
\* projected once: they differ by less than 2^-40 (about 1e-12) times the
\* largest magnitude of a component of x.
C8_ProjectionIdempotentToRounding ==
    proj.pc = "twice" =>
        \A b \in DOMAIN proj.x : \A i \in DOMAIN proj.x[b] :
            WithinRounding(proj.twice[b][i], proj.once[b][i], proj.x[b])

\* A vector off the span of a slanted frame was projected twice: the first
\* projection moved it, and the second changed the last bits of the result.
C8_Witness ==
    /\ proj.pc = "twice"
    /\ \E b \in DOMAIN proj.x :
          /\ proj.once[b] # proj.x[b]
          /\ proj.twice[b] # proj.once[b]

=============================================================================
